---- MODULE Spec2Model ----
(***************************************************************************)
(* fs-capacitor: one WriteStream (the writer), its ReadStreams (readers),  *)
(* the temp file behind them and the exit-cleanup registry, as a state     *)
(* machine.  Modelled from src/src/index.ts, lines 261-569.                *)
(*                                                                         *)
(* Granularity.  JavaScript runs one callback at a time, so every action   *)
(* is one run-to-completion turn of the event loop: a call made by the     *)
(* application, or one asynchronous callback, each with everything it      *)
(* calls synchronously and with the process.nextTick work it queues for    *)
(* the writer ("finish").  An fs call is three turns: it is issued from    *)
(* JavaScript, the thread pool performs the system call at some later      *)
(* moment (the *Disk actions), and its completion callback runs later      *)
(* still (the *Callback actions).  The thread pool has several threads,    *)
(* so system calls of different requests, and their completion callbacks,  *)
(* are not ordered with respect to each other.                             *)
(*                                                                         *)
(* JS functions are operators from a program state (a record with one      *)
(* field per variable) to the program state after the call; an action      *)
(* applies them to the current state and commits the result.               *)
(***************************************************************************)
EXTENDS Integers, Sequences, FiniteSets, TLC

\* ------------------------------------------------------------------ bounds
\* Readers that createReadStream may create.
NumReaders == 2
\* Bytes the application may append in all.
MaxBytes == 3
\* Longest chunk, in bytes.
MaxChunkLen == 2
\* The n of every _read(n): the reader's highWaterMark.
HighWaterMark == 2
\* Other writers of the same process, beside the one modelled in full.
NumOthers == 1

Readers == 1..NumReaders
Others == 1..NumOthers

VARIABLES
  initPc,      \* constructor: "randomBytes" | "opening" | "ready" | "failed"
  path,        \* WriteStream._path: "null" | "path1"
  fd,          \* WriteStream._fd: "null" | "fd1"
  pos,         \* WriteStream._pos (the spec's writeOffset)
  readStreams, \* WriteStream._readStreams
  released,    \* WriteStream._released
  cleanup,     \* WriteStream._cleanup: "null" | "fn1"
  cleanupCalls,            \* module-level set of cleanup functions
  exitListenerRegistered,  \* module-level flag
  destroyed,   \* Writable: destroyed
  ending,      \* Writable: end() was called
  finished,    \* Writable: _writableState.finished
  finishNT,    \* Writable: _final's callback ran, "finish" is due this turn
  wbuf,        \* Writable: chunks buffered behind the write in flight
  wr,          \* the _write in flight: [st, chunk, at]
  readyL,      \* once("ready") listeners, in registration order
  dst,         \* _destroy: "none" | "waitReady" | "closeIssued" | "closeDone"
               \*           | "unlinkIssued" | "unlinkDone" | "done"
  derr,        \* the error _destroy was called with ("none" if none)
  werr,        \* the error the writer emitted ("none" if none)
  closed,      \* the writer emitted "close"
  rs,          \* the readers: rs[r] is a record, see NoReader
  disk,        \* the temp file's bytes
  fileExists,  \* the temp file's path exists
  fdOpen,      \* the descriptor is open in the operating system
  appended,    \* history: chunks passed to write(), concatenated
  dcall,       \* history: the application's first effective destroy call
  rcall,       \* history: the application's first release call
  thrown,      \* what the last createReadStream call threw ("none" if nothing)
  others,      \* the other writers: others[k] is a record, see NewOther
  exited,      \* the process has exited: its "exit" event was emitted
  wevt,        \* history: what the listeners of the last "write" event saw
  closeError,  \* _destroy: the error of its fs.close ("none" if none)
  unlinkError, \* _destroy: the error of its fs.unlink ("none" if none)
  exitListeners \* the "exit" listeners this module added to process

vars == <<initPc, path, fd, pos, readStreams, released, cleanup, cleanupCalls,
          exitListenerRegistered, destroyed, ending, finished, finishNT, wbuf,
          wr, readyL, dst, derr, werr, closed, rs, disk, fileExists, fdOpen,
          appended, dcall, rcall, thrown, others, exited, wevt, closeError,
          unlinkError, exitListeners>>

\* The program state as one record.
Cur ==
  [initPc |-> initPc, path |-> path, fd |-> fd, pos |-> pos,
   readStreams |-> readStreams, released |-> released, cleanup |-> cleanup,
   cleanupCalls |-> cleanupCalls,
   exitListenerRegistered |-> exitListenerRegistered,
   destroyed |-> destroyed, ending |-> ending, finished |-> finished,
   finishNT |-> finishNT, wbuf |-> wbuf, wr |-> wr, readyL |-> readyL,
   dst |-> dst, derr |-> derr, werr |-> werr, closed |-> closed, rs |-> rs,
   disk |-> disk, fileExists |-> fileExists, fdOpen |-> fdOpen,
   appended |-> appended, dcall |-> dcall, rcall |-> rcall,
   thrown |-> thrown, others |-> others, exited |-> exited, wevt |-> wevt,
   closeError |-> closeError, unlinkError |-> unlinkError,
   exitListeners |-> exitListeners]

Commit(s) ==
  /\ initPc' = s.initPc /\ path' = s.path /\ fd' = s.fd /\ pos' = s.pos
  /\ readStreams' = s.readStreams /\ released' = s.released
  /\ cleanup' = s.cleanup /\ cleanupCalls' = s.cleanupCalls
  /\ exitListenerRegistered' = s.exitListenerRegistered
  /\ destroyed' = s.destroyed /\ ending' = s.ending /\ finished' = s.finished
  /\ finishNT' = s.finishNT /\ wbuf' = s.wbuf /\ wr' = s.wr
  /\ readyL' = s.readyL /\ dst' = s.dst /\ derr' = s.derr /\ werr' = s.werr
  /\ closed' = s.closed /\ rs' = s.rs /\ disk' = s.disk
  /\ fileExists' = s.fileExists /\ fdOpen' = s.fdOpen
  /\ appended' = s.appended /\ dcall' = s.dcall /\ rcall' = s.rcall
  /\ thrown' = s.thrown /\ others' = s.others /\ exited' = s.exited
  /\ wevt' = s.wevt /\ closeError' = s.closeError
  /\ unlinkError' = s.unlinkError /\ exitListeners' = s.exitListeners

Min(a, b) == IF a < b THEN a ELSE b

\* A reader slot before createReadStream has made the reader.
\*   st: "idle" | "waitReady" | "issued" | "done" | "waitRetry"
\*   at, got, rerr: the fs.read in flight: its position, the bytes and the
\*     error the system call returned
\*   regs: pairs of "finish"/"write" listeners registered on the writer
\*   ended: push(null) was called;  out: the bytes pushed, in order
\*   err: the error destroy() was called with;  closed: "close" was emitted
NoReader ==
  [created |-> FALSE, pos |-> 0, st |-> "idle", at |-> 0, got |-> <<>>,
   rerr |-> "none", regs |-> 0, ended |-> FALSE, out |-> <<>>,
   destroyed |-> FALSE, err |-> "none", closed |-> FALSE]

NoWrite == [st |-> "idle", chunk |-> <<>>, at |-> 0, err |-> "none"]
\* A call of the application, for dcall and rcall.
\*   kind: "none" | "destroy" | "destroyE" | "release"
\*   some: a reader was attached at the call
\*   live: the readers attached and not destroyed at the call, less those the
\*     application destroys itself afterwards
NoCall == [kind |-> "none", some |-> FALSE, live |-> {}]

\* Another writer, just constructed, its fs.open issued.
\*   st: "opening" | "opened" | "ready" | "closeDone" | "unlinkDone" | "done"
\*   fdOpen, fileExists: its descriptor is open, its temp file exists
NewOther == [st |-> "opening", fdOpen |-> FALSE, fileExists |-> FALSE]

\* No "write" event yet.  At an event:
\*   pos: the writer's _pos;  wr: the write in flight;  disk: the file
NoEvent == [pos |-> 0, wr |-> NoWrite, disk |-> <<>>]

Init ==
  /\ initPc = "randomBytes" /\ path = "null" /\ fd = "null" /\ pos = 0
  /\ readStreams = {} /\ released = FALSE /\ cleanup = "null"
  /\ cleanupCalls = {} /\ exitListenerRegistered = FALSE
  /\ destroyed = FALSE /\ ending = FALSE /\ finished = FALSE
  /\ finishNT = FALSE /\ wbuf = <<>> /\ wr = NoWrite /\ readyL = <<>>
  /\ dst = "none" /\ derr = "none" /\ werr = "none" /\ closed = FALSE
  /\ rs = [r \in Readers |-> NoReader]
  /\ disk = <<>> /\ fileExists = FALSE /\ fdOpen = FALSE
  /\ appended = <<>> /\ dcall = NoCall /\ rcall = NoCall
  /\ thrown = "none" /\ others = [k \in Others |-> NewOther]
  /\ exited = FALSE
  /\ wevt = NoEvent /\ closeError = "none" /\ unlinkError = "none"
  /\ exitListeners = 0

\* ------------------------------------------------------------- the readers
\* A destroy(err) of a reader that also hands the error to the writer.
ReadableDestroy_propagating(s, r, e) ==
  IF s.rs[r].destroyed THEN s
  ELSE [s EXCEPT !.rs[r].destroyed = TRUE, !.rs[r].err = e,
                 !.werr = IF @ = "none" THEN e ELSE @]

\* Readable.destroy(err): the first call marks the stream destroyed and keeps
\* the error; "error" and "close" are emitted a tick later (ReaderClose).
\* A call on a destroyed stream does nothing.
ReadableDestroy(s, r, e) ==
  IF s.rs[r].destroyed THEN s
  ELSE [s EXCEPT !.rs[r].destroyed = TRUE, !.rs[r].err = e]

\* Readable.push(chunk): the bytes join the reader's output and the stream
\* may call _read again.  Ignored on a destroyed or ended stream.
ReadablePush(s, r, bytes) ==
  IF s.rs[r].destroyed \/ s.rs[r].ended
    THEN [s EXCEPT !.rs[r].st = "idle"]
    ELSE [s EXCEPT !.rs[r].st = "idle", !.rs[r].out = @ \o bytes]

\* Readable.push(null): end-of-data.
ReadablePushNull(s, r) ==
  IF s.rs[r].destroyed THEN [s EXCEPT !.rs[r].st = "idle"]
  ELSE [s EXCEPT !.rs[r].st = "idle", !.rs[r].ended = TRUE]

\* A _read without the test of this.destroyed.
_read_undestroyed(s, r) ==
  IF s.fd = "null"
    THEN [s EXCEPT !.readyL = Append(@, [k |-> "read", r |-> r]),
                   !.rs[r].st = "waitReady"]
    ELSE [s EXCEPT !.rs[r].st = "issued", !.rs[r].at = s.rs[r].pos]

\* ReadStream._read(n), up to the point where fs.read is issued.
_read(s, r) ==
  IF s.rs[r].destroyed THEN s
  ELSE IF s.fd = "null"
    THEN [s EXCEPT !.readyL = Append(@, [k |-> "read", r |-> r]),
                   !.rs[r].st = "waitReady"]
    ELSE [s EXCEPT !.rs[r].st = "issued", !.rs[r].at = s.rs[r].pos]

\* What fs.read(fd, buf, 0, n, at) returns when the system call runs.
ReadBytes(d, at, n) ==
  IF at >= Len(d) THEN <<>> ELSE SubSeq(d, at + 1, Min(Len(d), at + n))

\* An fs.read callback that adds its retry listeners twice.
ReadCallbackBody_twice(s, r) ==
  LET e == s.rs[r].rerr
      got == s.rs[r].got
      s0 == [s EXCEPT !.rs[r].got = <<>>, !.rs[r].rerr = "none"]
      s1 == IF e # "none" THEN ReadableDestroy(s0, r, e) ELSE s0
  IN IF Len(got) > 0
       THEN ReadablePush([s1 EXCEPT !.rs[r].pos = @ + Len(got)], r, got)
     ELSE IF s1.finished
       THEN ReadablePushNull(s1, r)
     ELSE [s1 EXCEPT !.rs[r].regs = @ + 2, !.rs[r].st = "waitRetry"]

\* The callback of fs.read in _read.
ReadCallbackBody(s, r) ==
  LET e == s.rs[r].rerr
      got == s.rs[r].got
      s0 == [s EXCEPT !.rs[r].got = <<>>, !.rs[r].rerr = "none"]
      s1 == IF e # "none" THEN ReadableDestroy(s0, r, e) ELSE s0
  IN IF Len(got) > 0
       THEN ReadablePush([s1 EXCEPT !.rs[r].pos = @ + Len(got)], r, got)
     ELSE IF s1.finished
       THEN ReadablePushNull(s1, r)
     ELSE [s1 EXCEPT !.rs[r].regs = @ + 1, !.rs[r].st = "waitRetry"]

\* retry(): one registered pair of listeners fires: both are removed and
\* _read(n) is called again.
retry(s, r) ==
  _read([s EXCEPT !.rs[r].regs = @ - 1, !.rs[r].st = "idle"], r)

RECURSIVE RetryAll(_, _)
RetryAll(s, r) == IF s.rs[r].regs = 0 THEN s ELSE RetryAll(retry(s, r), r)

\* emit("write") and emit("finish"): every retry registered at that moment
\* runs; a retry only touches its own reader.
RECURSIVE EmitWakeFrom(_, _)
EmitWakeFrom(s, r) ==
  IF r > NumReaders THEN s ELSE EmitWakeFrom(RetryAll(s, r), r + 1)

EmitWake(s) == EmitWakeFrom(s, 1)

\* -------------------------------------------------------------- the writer
Max(a, b) == IF a > b THEN a ELSE b

\* The file after fs.write(fd, chunk, 0, chunk.length, at).
WriteAt(d, at, c) ==
  [i \in 1..Max(Len(d), at + Len(c)) |->
     IF i > at /\ i <= at + Len(c) THEN c[i - at]
     ELSE IF i <= Len(d) THEN d[i] ELSE 0]

\* A _write that advances _pos as it issues the fs.write.
_write_eager(s, c) ==
  IF s.fd = "null"
    THEN [s EXCEPT !.readyL = Append(@, [k |-> "write", r |-> 0]),
                   !.wr = [st |-> "waitReady", chunk |-> c, at |-> 0,
                           err |-> "none"]]
    ELSE [s EXCEPT !.wr = [st |-> "issued", chunk |-> c, at |-> s.pos,
                           err |-> "none"],
                   !.pos = @ + Len(c)]

\* A _write that does not wait for the file to be open.
_write_unguarded(s, c) ==
  [s EXCEPT !.wr = [st |-> "issued", chunk |-> c, at |-> s.pos,
                    err |-> "none"]]

\* WriteStream._write(chunk, encoding, callback), up to issuing fs.write.
_write(s, c) ==
  IF s.fd = "null"
    THEN [s EXCEPT !.readyL = Append(@, [k |-> "write", r |-> 0]),
                   !.wr = [st |-> "waitReady", chunk |-> c, at |-> 0,
                           err |-> "none"]]
    ELSE [s EXCEPT !.wr = [st |-> "issued", chunk |-> c, at |-> s.pos,
                           err |-> "none"]]

\* WriteStream._final(callback): the callback makes "finish" due at the end
\* of this turn.
_final(s) ==
  IF s.fd = "null"
    THEN [s EXCEPT !.readyL = Append(@, [k |-> "final", r |-> 0])]
    ELSE [s EXCEPT !.finishNT = TRUE]

\* Writable, end of turn: "finish" is emitted unless the stream was destroyed
\* meanwhile; the retries registered for it run.
EndOfTurn(s) ==
  IF ~s.finishNT THEN s
  ELSE IF s.destroyed THEN [s EXCEPT !.finishNT = FALSE]
  ELSE EmitWake([s EXCEPT !.finishNT = FALSE, !.finished = TRUE])

\* A Writable.write that calls _write while a write is in flight.
WritableWrite_concurrent(s, c) == _write(s, c)

\* Writable.write(chunk): _write now, or buffer behind the write in flight.
WritableWrite(s, c) ==
  IF s.wr.st = "idle" THEN _write(s, c) ELSE [s EXCEPT !.wbuf = Append(@, c)]

\* Writable.end(): _final once nothing is left to write.
WritableEnd(s) ==
  LET s1 == [s EXCEPT !.ending = TRUE]
  IN IF s.wr.st = "idle" /\ s.wbuf = <<>> THEN _final(s1) ELSE s1

\* Writable, the callback handed to _write, called without an error: the
\* next buffered chunk is written, or the stream finishes.
AfterWrite(s) ==
  LET s1 == [s EXCEPT !.wr = [st |-> "idle", chunk |-> <<>>, at |-> 0,
                              err |-> "none"]]
  IN IF s1.destroyed THEN [s1 EXCEPT !.wbuf = <<>>]
     ELSE IF s1.wbuf # <<>>
       THEN _write([s1 EXCEPT !.wbuf = Tail(@)], Head(s1.wbuf))
     ELSE IF s1.ending THEN _final(s1)
     ELSE s1

\* Writable, the callback handed to _write, called with an error: with
\* autoDestroy off the stream emits "error" and writes nothing more.
OnWriteError(s, e) ==
  LET s1 == [s EXCEPT !.wr = [st |-> "idle", chunk |-> <<>>, at |-> 0,
                              err |-> "none"],
                      !.wbuf = <<>>]
  IN IF s1.destroyed \/ s1.werr # "none" THEN s1
     ELSE [s1 EXCEPT !.werr = e]

\* this.emit("write"): the listeners see the writer as it is now.
EmitWrite(s) ==
  EmitWake([s EXCEPT !.wevt = [pos |-> s.pos, wr |-> s.wr, disk |-> s.disk]])

\* An fs.write callback that emits "write" before it advances _pos.
WriteCallbackBody_emitFirst(s) ==
  IF s.wr.err # "none" THEN OnWriteError(s, s.wr.err)
  ELSE AfterWrite([EmitWrite(s) EXCEPT !.pos = @ + Len(s.wr.chunk)])

\* An fs.write callback that does not look at the error.
WriteCallbackBody_ignoringError(s) ==
  AfterWrite(EmitWrite([s EXCEPT !.pos = @ + Len(s.wr.chunk)]))

\* The callback of fs.write in _write.
WriteCallbackBody(s) ==
  IF s.wr.err # "none" THEN OnWriteError(s, s.wr.err)
  ELSE AfterWrite(EmitWrite([s EXCEPT !.pos = @ + Len(s.wr.chunk)]))

\* The loop that ends _destroy: every attached reader is destroyed.
RECURSIVE DestroyReadersFrom(_, _, _)
DestroyReadersFrom(s, r, e) ==
  IF r > NumReaders THEN s
  ELSE DestroyReadersFrom(
         IF r \in s.readStreams THEN ReadableDestroy(s, r, e) ELSE s,
         r + 1, e)

\* A _destroy that, called before the file is open, completes at once
\* instead of waiting for "ready".
_destroy_undeferred(s, e) ==
  IF s.fd = "null" \/ s.path = "null"
    THEN [s EXCEPT !.dst = "done", !.derr = e, !.closed = TRUE,
                   !.werr = IF @ = "none" THEN e ELSE @]
    ELSE DestroyReadersFrom(
           [s EXCEPT !.dst = "closeIssued", !.derr = e], 1, e)

\* A _destroy that leaves the readers alone.
_destroy_sparing(s, e) ==
  IF s.fd = "null" \/ s.path = "null"
    THEN [s EXCEPT !.readyL = Append(@, [k |-> "destroy", r |-> 0]),
                   !.dst = "waitReady", !.derr = e]
    ELSE [s EXCEPT !.dst = "closeIssued", !.derr = e]

\* A _destroy that waits for the readers: called without an error while
\* readers are attached it only notes the request, as release() does.
_destroy_deferring(s, e) ==
  IF e = "none" /\ s.readStreams # {}
    THEN [s EXCEPT !.released = TRUE, !.destroyed = FALSE]
  ELSE IF s.fd = "null" \/ s.path = "null"
    THEN [s EXCEPT !.readyL = Append(@, [k |-> "destroy", r |-> 0]),
                   !.dst = "waitReady", !.derr = e]
    ELSE [s EXCEPT !.dst = "closeIssued", !.derr = e]

\* WriteStream._destroy(error, callback), up to issuing fs.close.
_destroy(s, e) ==
  IF s.fd = "null" \/ s.path = "null"
    THEN [s EXCEPT !.readyL = Append(@, [k |-> "destroy", r |-> 0]),
                   !.dst = "waitReady", !.derr = e]
    ELSE DestroyReadersFrom(
           [s EXCEPT !.dst = "closeIssued", !.derr = e], 1, e)

\* A destroy that does not mark the stream destroyed.
destroy_unmarked(s, e) == IF s.destroyed THEN s ELSE _destroy(s, e)

\* A destroy that calls _destroy at every call.
destroy_repeating(s, e) == _destroy([s EXCEPT !.destroyed = TRUE], e)

\* Writable.destroy(error): the first call marks the stream destroyed and
\* calls _destroy; later calls do nothing.
destroy(s, e) ==
  IF s.destroyed THEN s ELSE _destroy([s EXCEPT !.destroyed = TRUE], e)

\* A release() that destroys at once, readers or not.
release_eager(s) == destroy([s EXCEPT !.released = TRUE], "none")

\* A release() that only sets the flag.
release_lazy(s) == [s EXCEPT !.released = TRUE]

\* WriteStream.release().
release(s) ==
  LET s1 == [s EXCEPT !.released = TRUE]
  IN IF s1.readStreams = {} THEN destroy(s1, "none") ELSE s1

\* A createReadStream() without the test of this.destroyed.
createReadStream_undestroyed(s, r) ==
  IF s.released THEN [s EXCEPT !.thrown = "ReadAfterReleasedError"]
  ELSE [s EXCEPT !.thrown = "none",
                 !.rs[r] = [NoReader EXCEPT !.created = TRUE],
                 !.readStreams = @ \cup {r}]

\* A createReadStream() without the test of this._released.
createReadStream_unreleased(s, r) ==
  IF s.destroyed THEN [s EXCEPT !.thrown = "ReadAfterDestroyedError"]
  ELSE [s EXCEPT !.thrown = "none",
                 !.rs[r] = [NoReader EXCEPT !.created = TRUE],
                 !.readStreams = @ \cup {r}]

\* WriteStream.createReadStream(); r is the reader it makes if it makes one.
createReadStream(s, r) ==
  IF s.destroyed THEN [s EXCEPT !.thrown = "ReadAfterDestroyedError"]
  ELSE IF s.released THEN [s EXCEPT !.thrown = "ReadAfterReleasedError"]
  ELSE [s EXCEPT !.thrown = "none",
                 !.rs[r] = [NoReader EXCEPT !.created = TRUE],
                 !.readStreams = @ \cup {r}]

\* A remove() that leaves the reader in _readStreams.
remove_keeping(s, r) ==
  IF s.released /\ s.readStreams = {} THEN destroy(s, "none") ELSE s

\* remove(): the reader's "close" listener installed by createReadStream.
remove(s, r) ==
  LET s1 == [s EXCEPT !.readStreams = @ \ {r}]
  IN IF s1.released /\ s1.readStreams = {} THEN destroy(s1, "none") ELSE s1

\* emit("ready"): the once-listeners run in registration order.
ReadyListener(s, l) ==
  IF l.k = "write" THEN _write(s, s.wr.chunk)
  ELSE IF l.k = "final" THEN _final(s)
  ELSE IF l.k = "destroy" THEN _destroy(s, s.derr)
  ELSE _read([s EXCEPT !.rs[l.r].st = "idle"], l.r)

RECURSIVE RunReady(_, _)
RunReady(s, ls) ==
  IF ls = <<>> THEN s ELSE RunReady(ReadyListener(s, Head(ls)), Tail(ls))

EmitReady(s) == RunReady([s EXCEPT !.readyL = <<>>], s.readyL)

\* A registerExitListener without its flag: every call adds a listener.
registerExitListener_always(s) ==
  [s EXCEPT !.exitListeners = @ + 1, !.exitListenerRegistered = TRUE]

\* registerExitListener(): the first call adds the "exit" listener.
registerExitListener(s) ==
  IF s.exitListenerRegistered THEN s
  ELSE [s EXCEPT !.exitListeners = @ + 1, !.exitListenerRegistered = TRUE]

\* makeCleanupFn, cleanupCalls.add, registerExitListener and the assignment
\* of _fd in the callback of fs.open.
OpenCallbackBody(s) ==
  EmitReady([registerExitListener(
               [s EXCEPT !.cleanup = "fn1", !.cleanupCalls = @ \cup {"fn1"}])
             EXCEPT !.fd = "fd1", !.initPc = "ready"])

\* An fs.unlink callback that leaves the cleanup function registered.
UnlinkCallbackBody_registered(s) ==
  [s EXCEPT !.fd = "null", !.dst = "done",
            !.werr = IF @ = "none" THEN s.derr ELSE @, !.closed = TRUE]

\* a || b on errors: the first that is one.
OrError(a, b) == IF a # "none" THEN a ELSE b

\* An fs.unlink callback that reports closeError before unlinkError.
UnlinkCallbackBody_closeFirst(s) ==
  LET s1 == [s EXCEPT !.fd = "null"]
      s2 == IF s1.cleanup # "null"
              THEN [s1 EXCEPT !.cleanupCalls = @ \ {s1.cleanup},
                              !.cleanup = "null"]
              ELSE s1
      e == OrError(s.closeError, OrError(s.unlinkError, s.derr))
  IN [s2 EXCEPT !.dst = "done", !.werr = IF @ = "none" THEN e ELSE @,
                !.closed = TRUE]

\* The callback of fs.unlink in _destroy; the callback it calls, with
\* unlinkError || closeError || error, makes the writer emit "error" (if it
\* got one) and "close".
UnlinkCallbackBody(s) ==
  LET s1 == [s EXCEPT !.fd = "null"]
      s2 == IF s1.cleanup # "null"
              THEN [s1 EXCEPT !.cleanupCalls = @ \ {s1.cleanup},
                              !.cleanup = "null"]
              ELSE s1
      e == OrError(s.unlinkError, OrError(s.closeError, s.derr))
  IN [s2 EXCEPT !.dst = "done", !.werr = IF @ = "none" THEN e ELSE @,
                !.closed = TRUE]

\* ------------------------------------------------- the exit-cleanup registry
\* The cleanup functions of the other writers, and whose file a cleanup
\* function holds: 0 is the writer modelled in full.
FnNames == <<"fn2", "fn3", "fn4">>
OtherFn(k) == FnNames[k]
FnOwner(fn) == IF fn = "fn1" THEN 0 ELSE CHOOSE k \in Others : OtherFn(k) = fn

\* fs.closeSync(file.fd) and fs.unlinkSync(file.path) on the file of writer w.
closeSync(s, w) ==
  IF w = 0 THEN [s EXCEPT !.fdOpen = FALSE]
  ELSE [s EXCEPT !.others[w].fdOpen = FALSE]

unlinkSync(s, w) ==
  IF w = 0 THEN [s EXCEPT !.fileExists = FALSE]
  ELSE [s EXCEPT !.others[w].fileExists = FALSE]

\* Whether they throw: the descriptor is closed already, the path is gone.
closeSyncThrows(s, w) ==
  IF w = 0 THEN ~s.fdOpen ELSE ~s.others[w].fdOpen

unlinkSyncThrows(s, w) ==
  IF w = 0 THEN ~s.fileExists ELSE ~s.others[w].fileExists

\* A cleanupSync without its try/catch: the first failure ends it.
cleanupSync_uncaught(s, w) ==
  IF closeSyncThrows(s, w) THEN s
  ELSE IF unlinkSyncThrows(s, w) THEN closeSync(s, w)
  ELSE unlinkSync(closeSync(s, w), w)

\* A cleanupSync that hands a failure of its close to the writer, as an
\* error of the writer.
cleanupSync_surfacing(s, w) ==
  LET s1 == IF closeSyncThrows(s, w)
              THEN (IF w = 0 THEN [s EXCEPT !.werr = "EBADF"] ELSE s)
              ELSE closeSync(s, w)
  IN IF unlinkSyncThrows(s1, w) THEN s1 ELSE unlinkSync(s1, w)

\* cleanupSync(file): both calls are tried, a failure of either is ignored.
cleanupSync(s, w) ==
  LET s1 == IF closeSyncThrows(s, w) THEN s ELSE closeSync(s, w)
  IN IF unlinkSyncThrows(s1, w) THEN s1 ELSE unlinkSync(s1, w)

\* The function made by makeCleanupFn: cleanupSync, then it removes itself.
CleanupFn(s, fn) ==
  [cleanupSync(s, FnOwner(fn)) EXCEPT !.cleanupCalls = @ \ {fn}]

\* fsCapacitorCleanup, the "exit" listener: every registered function runs.
RECURSIVE fsCapacitorCleanupOver(_, _)
fsCapacitorCleanupOver(s, fns) ==
  IF fns = {} THEN s
  ELSE LET fn == CHOOSE f \in fns : TRUE
       IN fsCapacitorCleanupOver(CleanupFn(s, fn), fns \ {fn})

fsCapacitorCleanup(s) == fsCapacitorCleanupOver(s, s.cleanupCalls)

\* process.emit("exit"): every "exit" listener that was added runs.
RECURSIVE EmitExit(_, _)
EmitExit(s, n) == IF n = 0 THEN s ELSE EmitExit(fsCapacitorCleanup(s), n - 1)

\* The fs.open callback of another writer: as OpenCallbackBody.
OtherOpenCallbackBody(s, k) ==
  [registerExitListener([s EXCEPT !.cleanupCalls = @ \cup {OtherFn(k)}])
   EXCEPT !.others[k].st = "ready"]

\* An fs.unlink callback of another writer that empties the registry.
OtherUnlinkCallbackBody_clearing(s, k) ==
  [s EXCEPT !.cleanupCalls = {}, !.others[k].st = "done"]

\* The fs.unlink callback of another writer: as UnlinkCallbackBody.
OtherUnlinkCallbackBody(s, k) ==
  [s EXCEPT !.cleanupCalls = @ \ {OtherFn(k)}, !.others[k].st = "done"]

\* ---------------------------------------------------------------- actions
\* Every action is one turn of a process that has not exited: the body,
\* then the end of the turn.
Turn(s) == ~exited /\ Commit(EndOfTurn(s))

\* The k-th byte the application appends is the number k, so that a lost, a
\* repeated and a misplaced byte all show.
NextChunk(len) == [i \in 1..len |-> Len(appended) + i]

\* What a call of the application found attached.
Call(kind) ==
  [kind |-> kind, some |-> readStreams # {},
   live |-> IF kind = "release" THEN {}
            ELSE {r \in readStreams : ~rs[r].destroyed}]

\* The application: capacitor.createReadStream().  Readers are made in the
\* order of their numbers.
CreateReadStream(r) ==
  /\ ~rs[r].created
  /\ \A q \in Readers : q < r => rs[q].created
  /\ Turn(createReadStream(Cur, r))

\* The reader's consumer asks for data: Readable calls _read(n) unless a
\* _read is outstanding or the stream has ended or was destroyed.
Pull(r) ==
  /\ rs[r].created /\ rs[r].st = "idle"
  /\ ~rs[r].destroyed /\ ~rs[r].ended
  /\ Turn(_read(Cur, r))

\* The thread pool performs the fs.read.
ReadDisk(r) ==
  /\ rs[r].st = "issued"
  /\ Turn([Cur EXCEPT
        !.rs[r].st = "done",
        !.rs[r].got = IF fdOpen THEN ReadBytes(disk, rs[r].at, HighWaterMark)
                      ELSE <<>>,
        !.rs[r].rerr = IF fdOpen THEN "none" ELSE "EBADF"])

\* The fs.read fails in the operating system.
ReadDiskFailed(r) ==
  /\ rs[r].st = "issued"
  /\ Turn([Cur EXCEPT !.rs[r].st = "done", !.rs[r].got = <<>>,
                      !.rs[r].rerr = "EIO"])

ReadCallback(r) ==
  /\ rs[r].st = "done"
  /\ Turn(ReadCallbackBody(Cur, r))

\* "end" reaches the consumer of a reader made without autoDestroy.
ReaderEnd_manual(r) ==
  /\ rs[r].ended /\ ~rs[r].destroyed /\ rs[r].st # "ended"
  /\ Turn([Cur EXCEPT !.rs[r].st = "ended"])

\* "end" reaches the consumer; autoDestroy destroys the reader.
ReaderEnd(r) ==
  /\ rs[r].ended /\ ~rs[r].destroyed
  /\ Turn(ReadableDestroy(Cur, r, "none"))

\* The tick after destroy(): the reader emits "error" (if it has one) and
\* "close", and remove() runs.
ReaderClose(r) ==
  /\ rs[r].destroyed /\ ~rs[r].closed
  /\ Turn(remove([Cur EXCEPT !.rs[r].closed = TRUE], r))

\* The application: readStream.destroy(error?).
ReaderDestroy(r, e) ==
  /\ rs[r].created /\ ~rs[r].destroyed
  /\ Turn(ReadableDestroy([Cur EXCEPT !.dcall.live = @ \ {r}], r, e))

\* The application: capacitor.write(chunk).
Write(len) ==
  /\ ~ending /\ ~destroyed /\ werr = "none"
  /\ Len(appended) + len <= MaxBytes
  /\ Turn(WritableWrite([Cur EXCEPT !.appended = @ \o NextChunk(len)],
                        NextChunk(len)))

\* The application: capacitor.end().
End ==
  /\ ~ending /\ ~destroyed /\ werr = "none"
  /\ Turn(WritableEnd(Cur))

\* The thread pool performs the fs.write.
WriteDisk ==
  /\ wr.st = "issued"
  /\ Turn([Cur EXCEPT
        !.wr.st = "done",
        !.wr.err = IF fdOpen THEN "none" ELSE "EBADF",
        !.disk = IF fdOpen THEN WriteAt(disk, wr.at, wr.chunk) ELSE @])

\* The fs.write fails in the operating system: nothing is written.
WriteDiskFailed ==
  /\ wr.st = "issued"
  /\ Turn([Cur EXCEPT !.wr.st = "done", !.wr.err = "EIO"])

WriteCallback ==
  /\ wr.st = "done"
  /\ Turn(WriteCallbackBody(Cur))

\* The application: capacitor.release().
Release ==
  /\ ~released
  /\ Turn(release([Cur EXCEPT !.rcall = Call("release")]))

\* The application: capacitor.destroy(error?).
Destroy(e) ==
  /\ ~destroyed
  /\ Turn(destroy([Cur EXCEPT !.dcall = Call(IF e = "none" THEN "destroy"
                                             ELSE "destroyE")], e))

\* The constructor: the callback of crypto.randomBytes, without an error:
\* _path is set and fs.open is issued.
RandomBytesCallback ==
  /\ initPc = "randomBytes"
  /\ Turn([Cur EXCEPT !.path = "path1", !.initPc = "opening"])

\* The constructor: the callback of crypto.randomBytes, with an error.
RandomBytesFailed ==
  /\ initPc = "randomBytes"
  /\ Turn(destroy([Cur EXCEPT !.initPc = "failed"], "EINIT"))

\* The thread pool performs the fs.open(filePath, "wx+", 0o600).
OpenDisk ==
  /\ initPc = "opening"
  /\ Turn([Cur EXCEPT !.initPc = "opened", !.fileExists = TRUE,
                      !.fdOpen = TRUE])

\* The fs.open fails.
OpenDiskFailed ==
  /\ initPc = "opening"
  /\ Turn([Cur EXCEPT !.initPc = "openFailed"])

\* The constructor: the callback of fs.open, without an error.
OpenCallback ==
  /\ initPc = "opened"
  /\ Turn(OpenCallbackBody(Cur))

\* The constructor: the callback of fs.open, with an error.
OpenFailedCallback ==
  /\ initPc = "openFailed"
  /\ Turn(destroy([Cur EXCEPT !.initPc = "failed"], "EOPEN"))

\* _destroy: the thread pool performs the fs.close.
CloseDisk ==
  /\ dst = "closeIssued"
  /\ Turn([Cur EXCEPT !.dst = "closeDone", !.fdOpen = FALSE])

\* _destroy: the fs.close fails; whether the descriptor is still open
\* afterwards is up to the operating system.
CloseDiskFailed ==
  /\ dst = "closeIssued"
  /\ \E open \in {fdOpen, FALSE} :
       Turn([Cur EXCEPT !.dst = "closeDone", !.closeError = "ECLOSE",
                        !.fdOpen = open])

\* _destroy: the callback of fs.close issues the fs.unlink.
CloseCallback ==
  /\ dst = "closeDone"
  /\ Turn([Cur EXCEPT !.dst = "unlinkIssued"])

\* _destroy: the thread pool performs the fs.unlink.
UnlinkDisk ==
  /\ dst = "unlinkIssued"
  /\ Turn([Cur EXCEPT !.dst = "unlinkDone", !.fileExists = FALSE])

\* _destroy: the fs.unlink fails: the file stays.
UnlinkDiskFailed ==
  /\ dst = "unlinkIssued"
  /\ Turn([Cur EXCEPT !.dst = "unlinkDone", !.unlinkError = "EUNLINK"])

UnlinkCallback ==
  /\ dst = "unlinkDone"
  /\ Turn(UnlinkCallbackBody(Cur))

\* Another writer: the thread pool performs its fs.open.
OtherOpenDisk(k) ==
  /\ others[k].st = "opening"
  /\ Turn([Cur EXCEPT !.others[k] = [st |-> "opened", fdOpen |-> TRUE,
                                     fileExists |-> TRUE]])

\* Another writer: the callback of its fs.open.
OtherOpenCallback(k) ==
  /\ others[k].st = "opened"
  /\ Turn(OtherOpenCallbackBody(Cur, k))

\* Another writer is destroyed: the thread pool performs its fs.close.
OtherCloseDisk(k) ==
  /\ others[k].st = "ready"
  /\ Turn([Cur EXCEPT !.others[k].st = "closeDone",
                      !.others[k].fdOpen = FALSE])

\* Another writer: the thread pool performs its fs.unlink.
OtherUnlinkDisk(k) ==
  /\ others[k].st = "closeDone"
  /\ Turn([Cur EXCEPT !.others[k].st = "unlinkDone",
                      !.others[k].fileExists = FALSE])

\* Another writer: the callback of its fs.unlink.
OtherUnlinkCallback(k) ==
  /\ others[k].st = "unlinkDone"
  /\ Turn(OtherUnlinkCallbackBody(Cur, k))

\* The process exits (process.exit() is called, or the event loop is out of
\* work): "exit" is emitted, its listener runs if it was registered, and no
\* turn runs afterwards.
Exit ==
  /\ ~exited
  /\ Commit([EmitExit(Cur, exitListeners) EXCEPT !.exited = TRUE])

\* ---------------------------------------------------------- specifications
\* The errors the application destroys a reader and the writer with.
ReaderErrors == {"none"}
WriterErrors == {"none", "E"}

\* Bytes the application appends in Spec, where the lifecycle is explored.
LifeBytes == 1

\* The turns the program takes by itself: system calls, callbacks, ticks.
Internal ==
  \/ \E r \in Readers : ReadDisk(r)
  \/ \E r \in Readers : ReadCallback(r)
  \/ \E r \in Readers : ReaderEnd(r)
  \/ \E r \in Readers : ReaderClose(r)
  \/ WriteDisk
  \/ WriteCallback
  \/ RandomBytesCallback
  \/ OpenDisk
  \/ OpenCallback
  \/ CloseDisk
  \/ CloseCallback
  \/ UnlinkDisk
  \/ UnlinkCallback

\* The faults of the constructor.
InitFault ==
  \/ RandomBytesFailed
  \/ OpenDiskFailed
  \/ OpenFailedCallback

\* Spec: the whole lifecycle, with little data.
Next ==
  \/ Internal
  \/ InitFault
  \/ \E r \in Readers : CreateReadStream(r)
  \/ \E r \in Readers : Pull(r)
  \/ \E r \in Readers, e \in ReaderErrors : ReaderDestroy(r, e)
  \/ (Len(appended) < LifeBytes /\ Write(1))
  \/ End
  \/ Release
  \/ \E e \in WriterErrors : Destroy(e)

Spec == Init /\ [][Next]_vars

\* SpecData: the data path: the file opens, the application appends up to
\* MaxBytes bytes, ends, reads and releases, and destroys nothing itself.
NextData ==
  \/ Internal
  \/ \E r \in Readers : CreateReadStream(r)
  \/ \E r \in Readers : Pull(r)
  \/ \E len \in 1..MaxChunkLen : Write(len)
  \/ End
  \/ Release

SpecData == Init /\ [][NextData]_vars

\* SpecReaders: the data path, with little data, and with readers that
\* fail: the application destroys readers, with and without an error, and
\* reads fail on disk.
ReaderFaults == {"none", "RE"}

NextReaders ==
  \/ Internal
  \/ \E r \in Readers : CreateReadStream(r)
  \/ \E r \in Readers : Pull(r)
  \/ (Len(appended) < LifeBytes /\ Write(1))
  \/ End
  \/ Release
  \/ \E r \in Readers, e \in ReaderFaults : ReaderDestroy(r, e)
  \/ \E r \in Readers : ReadDiskFailed(r)

SpecReaders == Init /\ [][NextReaders]_vars

\* SpecWrites: the data path with writes that fail on disk.
NextWrites ==
  \/ Internal
  \/ \E r \in Readers : CreateReadStream(r)
  \/ \E r \in Readers : Pull(r)
  \/ \E len \in 1..MaxChunkLen : Write(len)
  \/ End
  \/ Release
  \/ WriteDiskFailed

SpecWrites == Init /\ [][NextWrites]_vars

\* SpecDestroy: the destruction of the writer, with an fs.close and an
\* fs.unlink that fail: the file opens, readers attach, the application
\* releases or destroys.
NextDestroy ==
  \/ RandomBytesCallback
  \/ OpenDisk
  \/ OpenCallback
  \/ \E r \in Readers : CreateReadStream(r)
  \/ \E r \in Readers : ReaderClose(r)
  \/ \E r \in Readers, e \in ReaderErrors : ReaderDestroy(r, e)
  \/ Release
  \/ \E e \in WriterErrors : Destroy(e)
  \/ CloseDisk
  \/ CloseDiskFailed
  \/ CloseCallback
  \/ UnlinkDisk
  \/ UnlinkDiskFailed
  \/ UnlinkCallback

SpecDestroy == Init /\ [][NextDestroy]_vars

\* SpecEarly: the lifecycle without data and without faults, for what
\* must come about: the event loop runs every callback that is due and the
\* thread pool performs every system call that was issued.
NextEarly ==
  \/ RandomBytesCallback
  \/ OpenDisk
  \/ OpenCallback
  \/ \E r \in Readers : CreateReadStream(r)
  \/ \E r \in Readers : ReaderClose(r)
  \/ \E r \in Readers, e \in ReaderErrors : ReaderDestroy(r, e)
  \/ Release
  \/ \E e \in WriterErrors : Destroy(e)
  \/ CloseDisk
  \/ CloseCallback
  \/ UnlinkDisk
  \/ UnlinkCallback

\* The steps of the constructor and of the destruction: at most one of them
\* is due at a time.
Pending ==
  \/ RandomBytesCallback
  \/ OpenDisk
  \/ OpenCallback
  \/ CloseDisk
  \/ CloseCallback
  \/ UnlinkDisk
  \/ UnlinkCallback

FairEarly == WF_vars(Pending)

SpecEarly == Init /\ [][NextEarly]_vars /\ FairEarly

\* SpecExit: the files and the registry: this writer without readers and
\* without data, the other writers, and the exit of the process.
NextExit ==
  \/ RandomBytesCallback
  \/ OpenDisk
  \/ OpenCallback
  \/ InitFault
  \/ Release
  \/ \E e \in WriterErrors : Destroy(e)
  \/ CloseDisk
  \/ CloseCallback
  \/ UnlinkDisk
  \/ UnlinkCallback
  \/ \E k \in Others : OtherOpenDisk(k)
  \/ \E k \in Others : OtherOpenCallback(k)
  \/ \E k \in Others : OtherCloseDisk(k)
  \/ \E k \in Others : OtherUnlinkDisk(k)
  \/ \E k \in Others : OtherUnlinkCallback(k)
  \/ Exit

SpecExit == Init /\ [][NextExit]_vars

\* No turn of the program is pending: only the application can act.
Quiescent == ~ENABLED (Internal \/ InitFault)

\* ------------------------------------------------------------------ claims
\* C1: a reader that was read to end-of-data without being destroyed has
\* delivered exactly the bytes appended to the writer, in order, each once.
C1_OrderPreserved ==
  \A r \in Readers : rs[r].ended => rs[r].out = appended

\* C2: in every state every reader's read offset is at most the writer's
\* write offset.
C2_NoReadAhead ==
  \A r \in Readers : rs[r].created => rs[r].pos <= pos

\* C3: a reader signals end-of-data only when the writer has finished and
\* the reader's read offset equals the writer's write offset.
C3_EndOnlyWhenDrained ==
  \A r \in Readers : rs[r].ended => (finished /\ rs[r].pos = pos)

\* C4: no wakeup is lost: when no turn of the program is pending, a reader
\* that is not destroyed is not suspended, waiting for "write" or "finish",
\* while bytes below the write offset are unread or the writer has finished.
C4_NoLostWakeup ==
  \A r \in Readers :
    (Quiescent /\ rs[r].st = "waitRetry" /\ ~rs[r].destroyed)
      => (rs[r].pos >= pos /\ ~finished)

\* C5: after release() was called with a reader attached, and while a
\* reader is still attached, the writer is not destroyed, no close was
\* issued, and the file, once made, exists with its descriptor open.  (The
\* application has not called destroy() and the constructor has not failed.)
C5_ReleaseDefers ==
  (released /\ readStreams # {} /\ dcall.kind = "none" /\ initPc # "failed")
    => /\ ~destroyed
       /\ dst = "none"
       /\ initPc \in {"opened", "ready"} => (fdOpen /\ fileExists)
       /\ initPc = "ready" => fd = "fd1"

\* C5, its case: release() found readers attached, one has detached since
\* and another is still attached, the file being open.
C5_Witness ==
  /\ rcall.kind = "release" /\ rcall.some /\ dcall.kind = "none"
  /\ initPc = "ready" /\ readStreams # {} /\ ~destroyed /\ fdOpen
  /\ \E r \in Readers : rs[r].closed

\* C6: after release() was called with readers attached, once the last
\* reader has detached and no turn of the program is pending, destruction
\* has completed: the writer is destroyed, its descriptor is null and the
\* temp file is gone.
C6_ReleaseCompletes ==
  (rcall.kind = "release" /\ rcall.some /\ readStreams = {} /\ Quiescent)
    => (destroyed /\ dst = "done" /\ fd = "null" /\ ~fileExists)

\* C7: release() on a writer that is not destroyed and has no reader
\* attached begins destruction in that call: the writer is marked destroyed
\* and _destroy has run, issuing the close if the file is open and waiting
\* for "ready" otherwise.
C7_ReleaseStartsDestroy ==
  [][(~released /\ released' /\ readStreams = {} /\ ~destroyed)
       => /\ destroyed'
          /\ dst' = IF fd # "null" THEN "closeIssued" ELSE "waitReady"]_vars

\* C7, its case: release() found no reader and an open file, and the close
\* is issued.
C7_Witness ==
  /\ rcall.kind = "release" /\ ~rcall.some /\ dcall.kind = "none"
  /\ initPc = "ready" /\ destroyed /\ dst = "closeIssued"

C9_DestroyNoError ==
  (dcall.kind = "destroy" /\ Quiescent)
    => /\ destroyed /\ werr = "none"
       /\ \A r \in dcall.live : rs[r].destroyed /\ rs[r].err = "none"

\* C10: after destroy(E) with readers attached, once no turn of the program is pending, the writer
\* has reported E and every reader attached at the call has ended with E; a
\* reader that was not attached at the call never has E.
C10_ErrorFanOut ==
  /\ (dcall.kind = "destroyE" /\ dcall.some /\ Quiescent)
       => (werr = "E" /\ \A r \in dcall.live : rs[r].err = "E")
  /\ \A r \in Readers \ dcall.live : rs[r].err # "E"

\* C11: from the call of destroy(E) on, in every state of the writer (the
\* file open or not yet open), every reader that was attached at the call is
\* destroyed with E, and the writer is marked destroyed with its _destroy
\* started.
C11_ErrorDestroysAtOnce ==
  dcall.kind = "destroyE"
    => /\ destroyed /\ dst # "none"
       /\ \A r \in dcall.live : rs[r].destroyed /\ rs[r].err = "E"

\* C12: when crypto.randomBytes or fs.open has failed on a writer the
\* application has neither destroyed nor released, and no turn of the program
\* is pending, the writer is destroyed, its destruction has completed and it
\* has emitted that error.
C12_InitErrorSurfaces ==
  (initPc = "failed" /\ dcall.kind = "none" /\ ~released /\ Quiescent)
    => (destroyed /\ closed /\ werr \in {"EINIT", "EOPEN"})

\* C13: on a destroyed writer every call of createReadStream throws
\* ReadAfterDestroyedError and leaves the attached readers, and every
\* reader, as they were.
C13_DestroyedRejects ==
  destroyed
    => \A r \in Readers :
         LET s == createReadStream(Cur, r)
         IN /\ s.thrown = "ReadAfterDestroyedError"
            /\ s.readStreams = readStreams
            /\ s.rs = rs

\* C13, its case: createReadStream was called on a destroyed writer that
\* was never released, and threw.
C13_Witness ==
  /\ destroyed /\ ~released /\ dcall.kind # "none"
  /\ thrown = "ReadAfterDestroyedError"
  /\ \E r \in Readers : ~rs[r].created

\* C14, as the claim states it: from release() until the writer's
\* destruction has completed, every call of createReadStream throws
\* ReadAfterReleasedError and attaches no reader.
C14_ReleasedRejects ==
  (released /\ dst # "done")
    => \A r \in Readers :
         LET s == createReadStream(Cur, r)
         IN /\ s.thrown = "ReadAfterReleasedError"
            /\ s.readStreams = readStreams
            /\ s.rs = rs

\* C14, as the code has it: after release() every call of createReadStream
\* throws and attaches no reader; it throws ReadAfterReleasedError while the
\* writer is not marked destroyed, and ReadAfterDestroyedError from the moment
\* destruction has begun, which is the release() call itself when no reader
\* is attached.
C14_ReleasedOrDestroyedRejects ==
  released
    => \A r \in Readers :
         LET s == createReadStream(Cur, r)
         IN /\ s.thrown = IF destroyed THEN "ReadAfterDestroyedError"
                          ELSE "ReadAfterReleasedError"
            /\ s.readStreams = readStreams
            /\ s.rs = rs

\* C14, its case: release() found a reader attached, the writer is not
\* destroyed, and a createReadStream call threw ReadAfterReleasedError.
C14_Witness ==
  /\ rcall.kind = "release" /\ rcall.some /\ ~destroyed
  /\ readStreams # {} /\ thrown = "ReadAfterReleasedError"

\* C15: in every state the attached readers are exactly the readers made by
\* createReadStream that have not emitted "close"; a step changes the set
\* only by adding the one reader made in that step or by removing the one
\* reader that emits "close" in that step, so a reader is added once and
\* removed once.
C15_AttachedExact ==
  /\ [](readStreams = {r \in Readers : rs[r].created /\ ~rs[r].closed})
  /\ [][\/ readStreams' = readStreams
        \/ \E r \in Readers :
             /\ ~rs[r].created /\ rs'[r].created
             /\ r \notin readStreams /\ readStreams' = readStreams \cup {r}
        \/ \E r \in Readers :
             /\ ~rs[r].closed /\ rs'[r].closed /\ rs[r].destroyed
             /\ r \in readStreams /\ readStreams' = readStreams \ {r}]_vars

\* C15, its case: one reader has been closed and is detached, while another,
\* just destroyed, is still attached until its "close".
C15_Witness ==
  \E r, q \in Readers :
    /\ rs[r].closed /\ r \notin readStreams
    /\ rs[q].destroyed /\ ~rs[q].closed /\ q \in readStreams

\* C16: a reader that has reached end-of-data is detached with no call of
\* the application: until it is closed and detached a turn of the reader
\* itself is pending (its "end" with autoDestroy, then its "close"); and
\* once a released writer whose reader ended is destroyed and no turn is
\* pending, no reader is attached and the temp file does not exist.
C16_EndDetaches ==
  /\ \A r \in Readers :
       rs[r].ended
         => \/ rs[r].closed /\ r \notin readStreams
            \/ ENABLED (ReaderEnd(r) \/ ReaderClose(r))
  /\ (destroyed /\ Quiescent /\ \E r \in Readers : rs[r].ended)
       => (readStreams = {} /\ dst = "done" /\ ~fileExists)

\* C16, its case: the writer finished, its only reader was read to the end
\* and closed, and the released writer was destroyed.
C16_Witness ==
  /\ finished /\ rs[1].ended /\ rs[1].closed /\ rs[1].out = appended
  /\ Len(appended) > 0 /\ ~rs[2].created
  /\ readStreams = {} /\ dst = "done"

C18_ReaderDestroyLocal ==
  [][\A r \in Readers :
       /\ (~rs[r].destroyed /\ rs'[r].destroyed /\ dst' = dst)
            => /\ pos' = pos /\ finished' = finished /\ destroyed' = destroyed
               /\ released' = released /\ fd' = fd /\ werr' = werr
               /\ readStreams' = readStreams
               /\ \A q \in Readers \ {r} : rs'[q] = rs[q]
       /\ (~rs[r].closed /\ rs'[r].closed)
            => /\ pos' = pos /\ finished' = finished /\ werr' = werr
               /\ readStreams' = readStreams \ {r}
               /\ destroyed' # destroyed => (released /\ readStreams = {r})
               /\ \A q \in Readers \ {r} : rs'[q] = rs[q]]_vars

\* C18, its case: one reader ended with an error, of the application or of
\* a failed read, and was closed; a sibling was read to the end without an
\* error and delivered everything appended; the writer has no error.
C18_Witness ==
  \E r, q \in Readers :
    /\ rs[r].err \in {"RE", "EIO"} /\ rs[r].closed
    /\ rs[q].ended /\ rs[q].err = "none" /\ rs[q].out = appended
    /\ Len(appended) > 0 /\ finished /\ werr = "none"

\* C19: when the process exits, the exit listener runs the cleanup function
\* of every writer in the registry: the descriptor of each is closed and
\* its file is gone afterwards, also when a close or an unlink of this or of
\* another function failed, and the registry is empty.
C19_ExitRunsAll ==
  [][(~exited /\ exited')
       => /\ cleanupCalls' = {}
          /\ "fn1" \in cleanupCalls => (~fdOpen' /\ ~fileExists')
          /\ \A k \in Others :
               OtherFn(k) \in cleanupCalls
                 => (~others'[k].fdOpen /\ ~others'[k].fileExists)]_vars

\* C19, its case: the process exited with two writers registered; for this
\* writer, in the middle of its destruction, the listener's close failed
\* and its unlink removed the file; for the other the listener did both.
C19_Witness ==
  /\ exited /\ cleanupCalls = {}
  /\ dst \in {"closeDone", "unlinkIssued"} /\ ~fileExists
  /\ \E k \in Others :
       others[k].st = "ready" /\ ~others[k].fdOpen /\ ~others[k].fileExists

\* C20: once the process has exited, no temp file of any writer exists.
C20_NoFileSurvivesExit ==
  exited => (~fileExists /\ \A k \in Others : ~others[k].fileExists)

\* C21, as the claim states it: when the process has exited during a
\* writer's destruction, the destroy path has run to completion too (its
\* completion callback ran), without an error of its own, and the file is
\* gone.
C21_BothComplete ==
  (exited /\ dst \notin {"none", "waitReady"})
    => (dst = "done" /\ closed /\ werr = derr /\ ~fileExists)

\* C21, as the code has it: when the process exits during a writer's
\* destruction (close issued, close done, unlink issued or unlink done, the
\* completion callback not yet run), the exit listener runs to completion:
\* afterwards the descriptor is closed, the file is gone and the registry is
\* empty, and no error of the repeated close or unlink reaches the writer;
\* the destroy path goes no further, as no turn runs after the exit.
C21_ExitDuringDestroy ==
  [][/\ ~exited
     /\ (exited' /\ dst \in {"closeIssued", "closeDone", "unlinkIssued",
                            "unlinkDone"})
          => /\ ~fdOpen' /\ ~fileExists' /\ cleanupCalls' = {}
             /\ werr' = werr /\ closed' = closed /\ dst' = dst]_vars

\* C21, its case: the process exited after the destroy path's unlink and
\* before its completion callback; the listener's close and unlink both
\* failed, and nothing was surfaced.
C21_Witness ==
  /\ exited /\ dst = "unlinkDone" /\ ~fileExists /\ ~fdOpen
  /\ cleanupCalls = {} /\ werr = "none" /\ ~closed

\* C22: once a disk write of an appended chunk has failed and its callback
\* has run, the writer is destroyed with that error and every attached
\* reader is destroyed with it.
C22_WriteErrorFansOut ==
  werr = "EIO"
    => /\ destroyed /\ derr = "EIO"
       /\ \A r \in readStreams : rs[r].destroyed /\ rs[r].err = "EIO"

\* The sum of the lengths of the chunks of a sequence of chunks.
RECURSIVE TotalLen(_)
TotalLen(cs) == IF cs = <<>> THEN 0 ELSE Len(Head(cs)) + TotalLen(Tail(cs))

\* C24: what the listeners of a "write" event see: the disk write of the
\* chunk is acknowledged without an error and its bytes are in the file, the
\* writer's write offset already counts the chunk, and the completion
\* callback of that write has not been invoked: the write is still the one
\* in flight.
C24_WriteEventOrder ==
  wevt # NoEvent
    => /\ wevt.wr.st = "done" /\ wevt.wr.err = "none"
       /\ wevt.pos = wevt.wr.at + Len(wevt.wr.chunk)
       /\ Len(wevt.disk) >= wevt.pos
       /\ SubSeq(wevt.disk, wevt.wr.at + 1, wevt.pos) = wevt.wr.chunk

\* A reader suspended for "write" was woken by the event and read again,
\* from an offset below the write offset the event showed.
C24_Witness ==
  /\ wevt # NoEvent /\ wevt.pos = 2
  /\ \E r \in Readers : rs[r].st = "issued" /\ rs[r].at < wevt.pos
                        /\ rs[r].regs = 0

\* C25: the write offset changes only in the completion callback of a disk
\* write that succeeded, and then grows by the length of the chunk written;
\* while the writer has not failed and is not destroyed, the write offset is
\* the length of what was appended less the chunk in flight and the chunks
\* buffered behind it.
C25_OffsetSteps ==
  [][pos' # pos
       => /\ wr.st = "done" /\ wr.err = "none" /\ Len(wr.chunk) > 0
          /\ pos' = pos + Len(wr.chunk)]_vars

C25_OffsetIsAcknowledged ==
  (werr = "none" /\ ~destroyed)
    => pos + Len(wr.chunk) + TotalLen(wbuf) = Len(appended)

C25_WriteOffset == []C25_OffsetIsAcknowledged /\ C25_OffsetSteps

\* Two chunks were acknowledged, a third is in flight.
C25_Witness ==
  /\ pos = 2 /\ wr.st = "issued" /\ wr.at = 2 /\ Len(appended) = 3
  /\ wevt.wr.at = 1

\* C26: the completion callback of a disk write that failed leaves the write
\* offset as it was, emits no "write" event and wakes no reader, and hands
\* the error to the Writable: the writer emits it, unless it was destroyed or
\* had emitted an error before.
C26_FailedWrite ==
  [][(wr.st = "done" /\ wr.err # "none" /\ wr' # wr)
       => /\ pos' = pos /\ wevt' = wevt /\ rs' = rs
          /\ wr'.st = "idle"
          /\ werr' = IF destroyed \/ werr # "none" THEN werr ELSE wr.err]_vars

\* A write failed after an earlier one had succeeded, while a reader was
\* suspended: the write offset stayed, the reader was not woken.
C26_Witness ==
  /\ werr = "EIO" /\ wr.st = "idle" /\ pos = 1 /\ wevt.pos = 1
  /\ Len(appended) > pos
  /\ \E r \in Readers : rs[r].st = "waitRetry"

C27_ReadsBounded ==
  \A r \in Readers :
    /\ rs[r].st = "issued"
         => /\ HighWaterMark <= Min(HighWaterMark, pos - rs[r].at)
            /\ (pos = rs[r].at => finished)
    /\ rs[r].st = "done" => rs[r].at + Len(rs[r].got) <= pos

\* C28: before "ready" no disk write and no disk read is issued, the writer
\* has not finished and its finalize has not completed, the file is empty and
\* the write offset is 0; no operation waits for "ready" twice.  The turn in
\* which "ready" fires performs every suspended operation and leaves none
\* suspended: the suspended chunk is written at offset 0, a suspended
\* finalize completes and the writer finishes unless it was destroyed, and a
\* suspended pull of a reader that is not destroyed issues its disk read.
C28_NothingBeforeOpen ==
  /\ initPc # "ready"
       => /\ wr.st \notin {"issued", "done"}
          /\ \A r \in Readers : rs[r].st \notin {"issued", "done"}
          /\ ~finished /\ ~finishNT
          /\ disk = <<>> /\ pos = 0 /\ wevt = NoEvent
  /\ \A i, j \in 1..Len(readyL) : i # j => readyL[i] # readyL[j]

C28_ReadyPerforms ==
  [][(initPc # "ready" /\ initPc' = "ready")
       => /\ initPc = "opened" /\ readyL' = <<>>
          /\ wr.st = "waitReady"
               => wr' = [st |-> "issued", chunk |-> wr.chunk, at |-> 0,
                         err |-> "none"]
          /\ (\E i \in 1..Len(readyL) : readyL[i].k = "final")
               => finished' = ~destroyed
          /\ \A r \in Readers :
               rs[r].st = "waitReady"
                 => /\ rs'[r].st \in {"issued", "idle"}
                    /\ ~rs'[r].destroyed
                         => (rs'[r].st = "issued" /\ rs'[r].at = 0)
                    /\ rs[r].destroyed => rs'[r].st = "idle"]_vars

C28_SuspendedUntilReady == []C28_NothingBeforeOpen /\ C28_ReadyPerforms

\* An append and a pull arrived before "ready" and are suspended, the file is
\* open in the operating system and the callback of fs.open is due.
C28_Witness ==
  /\ initPc = "opened" /\ wr.st = "waitReady" /\ Len(wr.chunk) = 1
  /\ \E r \in Readers : rs[r].st = "waitReady"
  /\ Len(readyL) = 2 /\ ending

\* C29: a chunk waits in the Writable's buffer only behind a disk write in
\* flight, so that at most one is in flight; the chunk in flight is written
\* at the write offset, which is the total length of the chunks appended
\* before it, and it is the next chunk in append order; the file below the
\* write offset is what was appended, in order.
C29_Serialized ==
  /\ wbuf # <<>> => wr.st # "idle"
  /\ wr.st \in {"issued", "done"}
       => /\ wr.at = pos
          /\ wr.at + Len(wr.chunk) <= Len(appended)
          /\ wr.chunk = SubSeq(appended, wr.at + 1, wr.at + Len(wr.chunk))
          /\ (werr = "none" /\ ~destroyed)
               => wr.at + Len(wr.chunk) + TotalLen(wbuf) = Len(appended)
  /\ Len(disk) >= pos
  /\ SubSeq(disk, 1, pos) = SubSeq(appended, 1, pos)

\* Three chunks were appended: two are acknowledged, the third was written
\* behind them and its callback is due.
C29_Witness ==
  /\ pos = 2 /\ wevt.wr.at = 1 /\ wr.st = "done" /\ wr.err = "none"
  /\ disk = appended /\ Len(disk) = 3

\* C30: in the destruction of the writer, the callback of fs.close issues
\* the fs.unlink whether the close failed or not; the callback of fs.unlink,
\* whether the unlink failed or not, sets the descriptor field to null,
\* takes the cleanup function out of the registry and completes the
\* destruction with the unlink error if there is one, else the close error
\* if there is one, else the error the destruction was called with, if any.
C30_DestroySteps ==
  [][/\ (dst = "closeDone" /\ dst' # dst) => dst' = "unlinkIssued"
     /\ (dst = "unlinkDone" /\ dst' # dst)
          => /\ dst' = "done" /\ closed'
             /\ fd' = "null" /\ cleanup' = "null" /\ "fn1" \notin cleanupCalls'
             /\ werr' = IF unlinkError # "none" THEN unlinkError
                        ELSE IF closeError # "none" THEN closeError
                        ELSE derr]_vars

\* A destruction with an error whose close and whose unlink both failed: it
\* completed with the unlink error, the file is still there.
C30_Witness ==
  /\ dst = "done" /\ derr = "E" /\ closeError = "ECLOSE"
  /\ unlinkError = "EUNLINK" /\ werr = "EUNLINK" /\ closed
  /\ fd = "null" /\ cleanupCalls = {} /\ fileExists

\* C31: the module adds at most one "exit" listener to the process, however
\* many writers are opened; it has added one exactly when the file of some
\* writer was opened and the callback of its fs.open has run: none at the
\* start and none for a writer whose randomBytes or open failed.
C31_OneExitListener ==
  /\ exitListeners <= 1
  /\ exitListenerRegistered <=> exitListeners = 1
  /\ exitListeners = 1
       <=> \/ initPc = "ready"
           \/ \E k \in Others : others[k].st \notin {"opening", "opened"}

\* This writer and another one were opened: one listener.
C31_Witness ==
  /\ exitListeners = 1 /\ initPc = "ready" /\ cleanup = "fn1"
  /\ \E k \in Others : others[k].st = "ready"

\* C32: while the process runs, the registry holds the cleanup function of a
\* writer exactly from the callback of its fs.open to the callback of the
\* fs.unlink of its destruction; it is there when "ready" is emitted, also
\* for the listeners of "ready"; a step that is not the exit of the process
\* takes out at most the function of the one writer whose fs.unlink callback
\* it is.
C32_RegistryExact ==
  ~exited
    => /\ "fn1" \in cleanupCalls <=> (initPc = "ready" /\ dst # "done")
       /\ "fn1" \in cleanupCalls <=> cleanup = "fn1"
       /\ \A k \in Others :
            OtherFn(k) \in cleanupCalls
              <=> others[k].st \in {"ready", "closeDone", "unlinkDone"}
       /\ cleanupCalls \subseteq {"fn1"} \cup {OtherFn(k) : k \in Others}

C32_RegistrySteps ==
  [][~exited'
       => /\ (initPc # "ready" /\ initPc' = "ready") => "fn1" \in cleanupCalls'
          /\ ("fn1" \in cleanupCalls /\ "fn1" \notin cleanupCalls')
               => /\ dst = "unlinkDone"
                  /\ cleanupCalls' = cleanupCalls \ {"fn1"}
          /\ \A k \in Others :
               (OtherFn(k) \in cleanupCalls /\ OtherFn(k) \notin cleanupCalls')
                 => /\ others[k].st = "unlinkDone"
                    /\ cleanupCalls' = cleanupCalls \ {OtherFn(k)}]_vars

C32_Registry == []C32_RegistryExact /\ C32_RegistrySteps

\* The destruction of another writer completed and took its function out
\* while this writer's destruction is under way: this one's is still there.
C32_Witness ==
  /\ ~exited /\ dst = "unlinkIssued" /\ cleanupCalls = {"fn1"}
  /\ \E k \in Others : others[k].st = "done"

\* C33: a reader has at most one pair of "write"/"finish" listeners on its
\* writer, and has one exactly while it is suspended for them; the pair is
\* removed in the turn of a "write" or a "finish" event, and in that turn
\* the reader, unless it was destroyed, issues one disk read.
C33_OnePair ==
  \A r \in Readers :
    /\ rs[r].regs <= 1
    /\ rs[r].regs = 1 <=> rs[r].st = "waitRetry"

C33_WokenOnce ==
  [][\A r \in Readers :
       (rs[r].regs = 1 /\ rs'[r].regs # 1)
         => /\ rs'[r].regs = 0
            /\ wevt' # wevt \/ (~finished /\ finished')
            /\ rs'[r].st = IF rs[r].destroyed THEN "idle" ELSE "issued"
            /\ rs'[r].st = "issued" => rs'[r].at = rs[r].pos]_vars

C33_SingleWakeup == []C33_OnePair /\ C33_WokenOnce

\* Both readers were suspended, a "write" event woke both, each has its one
\* disk read in flight and no listener left.
C33_Witness ==
  /\ wevt # NoEvent /\ ~finished
  /\ \A r \in Readers :
       rs[r].created /\ rs[r].st = "issued" /\ rs[r].regs = 0
       /\ rs[r].pos = 0 /\ ~rs[r].destroyed

\* C34: the callback of a disk read that failed destroys the reader with the
\* error of the read and does nothing else: the read offset, the output and
\* the end-of-data mark stay, and no "write"/"finish" listeners are added.
C34_FailedReadOnlyDestroys ==
  [][\A r \in Readers :
       (rs[r].st = "done" /\ rs[r].rerr # "none" /\ rs'[r] # rs[r])
         => /\ rs'[r].destroyed
            /\ rs'[r].err = IF rs[r].destroyed THEN rs[r].err ELSE rs[r].rerr
            /\ rs'[r].pos = rs[r].pos /\ rs'[r].out = rs[r].out
            /\ rs'[r].ended = rs[r].ended
            /\ rs'[r].regs = rs[r].regs /\ rs'[r].st = "idle"]_vars

\* C35: while the process runs, a writer whose file was opened and that is
\* not destroyed has its descriptor set and the descriptor is open in the
\* operating system; an open descriptor is closed only by the fs.close of
\* the writer's destruction or at the exit of the process.
C35_DescriptorValid ==
  (initPc = "ready" /\ ~destroyed /\ ~exited) => (fd = "fd1" /\ fdOpen)

C35_ClosedByDestroyOrExit ==
  [][(fdOpen /\ ~fdOpen') => (dst = "closeIssued" /\ destroyed) \/ exited']_vars

C35_Descriptor == []C35_DescriptorValid /\ C35_ClosedByDestroyOrExit

\* Another writer was destroyed and its descriptor closed, this writer is
\* open and not destroyed: its descriptor is set and open.
C35_Witness ==
  /\ initPc = "ready" /\ ~destroyed /\ ~exited /\ fd = "fd1" /\ fdOpen
  /\ \E k \in Others : others[k].st = "done" /\ ~others[k].fdOpen

\* C36: a destruction begun before the file is open waits: nothing is
\* closed or unlinked before "ready", and the turn of "ready" issues the
\* close; a destruction of a writer whose file was opened has left the
\* descriptor closed and the temp file gone when it is complete.  When the
\* open has succeeded, the destruction that waits does complete, given that
\* every system call and every callback that is due runs.
C36_DeferredUntilReady ==
  /\ dst = "waitReady"
       => /\ destroyed /\ fd = "null" /\ initPc # "ready"
          /\ \E i \in 1..Len(readyL) : readyL[i].k = "destroy"
          /\ initPc = "opened" => (fdOpen /\ fileExists)
  /\ (initPc = "ready" /\ destroyed)
       => /\ dst \in {"closeIssued", "closeDone", "unlinkIssued",
                      "unlinkDone", "done"}
          /\ dst = "done" => (~fdOpen /\ ~fileExists /\ closed)

C36_ReadyStartsClose ==
  [][(dst = "waitReady" /\ initPc # "ready" /\ initPc' = "ready")
       => (dst' = "closeIssued" /\ fdOpen' /\ fileExists')]_vars

C36_Completes ==
  (dst = "waitReady" /\ initPc = "opened")
    ~> (dst = "done" /\ closed /\ ~fdOpen /\ ~fileExists)

C36_EarlyDestroyCompletes ==
  /\ []C36_DeferredUntilReady
  /\ C36_ReadyStartsClose
  /\ C36_Completes

\* release() was called before the file was open and began the destruction;
\* the open has succeeded since, its callback has not run: the new file is
\* there and the destruction waits for "ready".
C36_Witness ==
  /\ dst = "waitReady" /\ rcall.kind = "release" /\ dcall.kind = "none"
  /\ initPc = "opened" /\ fileExists /\ fdOpen

\* C37: once the destruction has issued the close, no reader issues a disk
\* read and the writer issues no disk write.  In the turn of "ready" that
\* issues the close, a listener of "ready" that runs after the one of the
\* destruction is the pull of a reader, and it issues no disk read.
C37_NoIoAfterClose ==
  [][/\ dst \in {"closeIssued", "closeDone", "unlinkIssued", "unlinkDone",
                 "done"}
          => /\ \A r \in Readers :
                  ~(rs[r].st # "issued" /\ rs'[r].st = "issued")
             /\ ~(wr.st # "issued" /\ wr'.st = "issued")
     /\ (dst = "waitReady" /\ dst' = "closeIssued")
          => \A i, j \in 1..Len(readyL) :
               (readyL[i].k = "destroy" /\ j > i)
                 => /\ readyL[j].k = "read"
                    /\ rs'[readyL[j].r].st # "issued"]_vars

\* The close was issued while a disk write and a disk read, issued before
\* it, are in flight; the reader is destroyed.
C37_Witness ==
  /\ dst = "closeIssued" /\ wr.st = "issued"
  /\ \E r \in Readers : rs[r].st = "issued" /\ rs[r].destroyed

\* The stages of a destruction, in order.
Stage(d) ==
  CASE d = "none" -> 0
    [] d = "waitReady" -> 1
    [] d = "closeIssued" -> 2
    [] d = "closeDone" -> 3
    [] d = "unlinkIssued" -> 4
    [] d = "unlinkDone" -> 5
    [] d = "done" -> 6

\* C38: whatever the application calls and whichever readers detach, the
\* destruction only moves forward: the close is issued from the stage before
\* it and never again, every later stage follows the one before it, the
\* completion callback runs in the step to the last stage, which is never
\* left, so it runs at most once, and _destroy waits for "ready" at most
\* once; the error the destruction began with stays.
C38_DestroyOnce ==
  [][/\ dst' # dst
          => /\ Stage(dst') > Stage(dst)
             /\ Stage(dst) >= 2 => Stage(dst') = Stage(dst) + 1
             /\ dst # "none" => derr' = derr
     /\ closed' # closed => (~closed /\ dst # "done" /\ dst' = "done")
     /\ dst = "done" => (dst' = "done" /\ werr' = werr)
     /\ Len(SelectSeq(readyL', LAMBDA l : l.k = "destroy")) <= 1]_vars

\* release() with a reader attached, then destroy(error), then the reader
\* detached: the destruction that destroy(error) began completed, with the
\* error, and the detaching did not begin another.
C38_Witness ==
  /\ rcall.kind = "release" /\ rcall.some /\ dcall.kind = "destroyE"
  /\ dst = "done" /\ werr = "E" /\ readStreams = {}
  /\ \E r \in Readers : rs[r].closed

\* C39: release() with readers attached sets _released and changes nothing
\* else; afterwards, while readers are attached, an append is still taken
\* and written and the writer reports no error; and a reader that was
\* attached at the release and signals end-of-data after it has then
\* delivered everything that was appended, before and after the release.
C39_ReleaseOnlyFlags ==
  [][/\ (rcall.kind = "none" /\ rcall'.kind = "release" /\ readStreams # {})
          => /\ released' /\ rcall'.some
             /\ UNCHANGED <<initPc, path, fd, pos, readStreams, cleanup,
                            cleanupCalls, exitListenerRegistered, destroyed,
                            ending, finished, finishNT, wbuf, wr, readyL,
                            dst, derr, werr, closed, rs, disk, fileExists,
                            fdOpen, appended, dcall, thrown, others, exited,
                            wevt, closeError, unlinkError, exitListeners>>
     /\ (released /\ readStreams # {} /\ appended' # appended)
          => /\ ~destroyed' /\ werr' = werr /\ dst' = "none"
             /\ wr'.st # "idle"
             /\ wr' # wr \/ Len(wbuf') = Len(wbuf) + 1
     /\ \A r \in readStreams :
          (released /\ ~rs[r].ended /\ rs'[r].ended)
            => rs'[r].out = appended']_vars

====
